---- MODULE Spec2Model ----
(***************************************************************************)
(* State-machine model of the bill extraction pipeline of infocle-ledger   *)
(* (src/text_extractor.py) together with the configuration it reads        *)
(* (src/config.py).                                                        *)
(*                                                                         *)
(* One invocation of TextExtractor.extract_text is modelled as a sequence  *)
(* of steps separated by the two blocking network calls it can make: the   *)
(* call itself (up to the moment the upload request is on the wire), the   *)
(* arrival of the upload response (up to the moment the generation request *)
(* is on the wire) and the arrival of the generation response (up to the   *)
(* return).  Texts are sequences of tokens; JSON parsing, brace trimming,  *)
(* dictionary update and serialisation are computed on those sequences.    *)
(***************************************************************************)
EXTENDS Integers, Sequences, FiniteSets, TLC

(***************************************************************************)
(* Bounds of the model.                                                    *)
(***************************************************************************)
\* longest remote output text enumerated exhaustively over the alphabet
MaxLen == 3
\* largest number of members of an enumerated well-formed JSON object
MaxMembers == 2

(***************************************************************************)
(* Python values.  Every value is a record of the same shape so that any   *)
(* two values can be compared: t is the Python type, s an atomic string,   *)
(* n a number, l the elements (list), members (dict) or characters (a      *)
(* string held character by character).                                    *)
(***************************************************************************)
None == [t |-> "NoneType", s |-> "", n |-> 0, l |-> <<>>]
Str(x) == [t |-> "str", s |-> x, n |-> 0, l |-> <<>>]
Chars(cs) == [t |-> "str", s |-> "", n |-> 0, l |-> cs]
Float(i) == [t |-> "float", s |-> "", n |-> i, l |-> <<>>]
List(xs) == [t |-> "list", s |-> "", n |-> 0, l |-> xs]
Dict(ms) == [t |-> "dict", s |-> "", n |-> 0, l |-> ms]

(***************************************************************************)
(* Tokens of a text.  c is the class of the token: a punctuation mark, a   *)
(* complete object member "key": value, a run of non-JSON characters, or   *)
(* a fragment of a message.                                                *)
(***************************************************************************)
Punct(p) == [c |-> "punct", k |-> p, v |-> None]
Pair(key, val) == [c |-> "pair", k |-> key, v |-> val]
Msg(m) == [c |-> "msg", k |-> m, v |-> None]
LB == Punct("{")
RB == Punct("}")
LSQ == Punct("[")
RSQ == Punct("]")
COMMA == Punct(",")
NOISE == [c |-> "noise", k |-> "noise", v |-> None]

\* the members a remote output text is built from
MemberS == Pair("source_filename", Str("x"))
MemberI == Pair("items", List(<<>>))
MemberB == Pair("bill_number", Str("123"))
\* a line item as the remote model can write it: quantity and unit price
\* read from the bill, no price, a category of its own
UpstreamItem ==
    Dict(<< Pair("description", Str("toy")), Pair("quantity", Float(2)),
            Pair("unit_price", Float(3)), Pair("category", Str("toys")) >>)
MemberU == Pair("items", List(<<UpstreamItem>>))
Alphabet == {LB, RB, LSQ, RSQ, COMMA, NOISE, MemberS, MemberI}

(***************************************************************************)
(* dict operations                                                         *)
(***************************************************************************)
Keys(d) == {d.l[i].k : i \in 1..Len(d.l)}
HasKey(d, key) == key \in Keys(d)
Get(d, key) == LET i == CHOOSE j \in 1..Len(d.l) : d.l[j].k = key IN d.l[i].v

\* d[key] = val: an existing key keeps its place and takes the new value
SetItem(d, key, val) ==
    IF HasKey(d, key)
    THEN Dict([i \in 1..Len(d.l) |->
                 IF d.l[i].k = key THEN Pair(key, val) ELSE d.l[i]])
    ELSE Dict(Append(d.l, Pair(key, val)))

\* dict.setdefault(key, val): only a missing key is inserted
setdefault_overwrite(d, key, val) == SetItem(d, key, val)
setdefault(d, key, val) ==
    IF HasKey(d, key) THEN d ELSE SetItem(d, key, val)

(***************************************************************************)
(* json.loads on a token text: value ::= object | array,                   *)
(* object ::= { [member (, member)*] }, array ::= [ [value (, value)*] ].  *)
(* The result is [ok, next, val]; a text is JSON when one value spans it.  *)
(***************************************************************************)
ParseFail == [ok |-> FALSE, next |-> 0, val |-> None]

RECURSIVE ParseMembers(_, _, _, _)
ParseMembers(s, i, acc, first) ==
    IF i > Len(s) THEN ParseFail
    ELSE IF first /\ s[i] = RB THEN [ok |-> TRUE, next |-> i + 1, val |-> acc]
    ELSE IF s[i].c # "pair" THEN ParseFail
    ELSE LET acc2 == SetItem(acc, s[i].k, s[i].v) IN
         IF i + 1 > Len(s) THEN ParseFail
         ELSE IF s[i + 1] = RB THEN [ok |-> TRUE, next |-> i + 2, val |-> acc2]
         ELSE IF s[i + 1] = COMMA THEN ParseMembers(s, i + 2, acc2, FALSE)
         ELSE ParseFail

RECURSIVE ParseValue(_, _), ParseElems(_, _, _, _)
ParseValue(s, i) ==
    IF i > Len(s) THEN ParseFail
    ELSE IF s[i] = LB THEN ParseMembers(s, i + 1, Dict(<<>>), TRUE)
    ELSE IF s[i] = LSQ THEN ParseElems(s, i + 1, <<>>, TRUE)
    ELSE ParseFail

ParseElems(s, i, acc, first) ==
    IF i > Len(s) THEN ParseFail
    ELSE IF first /\ s[i] = RSQ
         THEN [ok |-> TRUE, next |-> i + 1, val |-> List(acc)]
    ELSE LET e == ParseValue(s, i) IN
         IF ~e.ok \/ e.next > Len(s) THEN ParseFail
         ELSE IF s[e.next] = RSQ
              THEN [ok |-> TRUE, next |-> e.next + 1,
                    val |-> List(Append(acc, e.val))]
         ELSE IF s[e.next] = COMMA
              THEN ParseElems(s, e.next + 1, Append(acc, e.val), FALSE)
         ELSE ParseFail

\* json.loads(text): [ok, val]; ok = FALSE stands for json.JSONDecodeError
loads(text) ==
    LET r == ParseValue(text, 1) IN
    IF r.ok /\ r.next = Len(text) + 1
    THEN [ok |-> TRUE, val |-> r.val]
    ELSE [ok |-> FALSE, val |-> None]

(***************************************************************************)
(* json.dumps on a dict or list: the members of a dict in insertion order  *)
(***************************************************************************)
RECURSIVE JoinTokens(_)
JoinTokens(parts) ==
    IF Len(parts) = 0 THEN <<>>
    ELSE IF Len(parts) = 1 THEN parts[1]
    ELSE parts[1] \o <<COMMA>> \o JoinTokens(Tail(parts))

RECURSIVE dumps(_)
dumps(val) ==
    IF val.t = "dict"
    THEN <<LB>> \o JoinTokens([i \in 1..Len(val.l) |-> <<val.l[i]>>]) \o <<RB>>
    ELSE IF val.t = "list"
    THEN <<LSQ>> \o JoinTokens([i \in 1..Len(val.l) |-> dumps(val.l[i])]) \o <<RSQ>>
    ELSE <<[c |-> "scalar", k |-> "", v |-> val]>>

(***************************************************************************)
(* Exceptions and the two ways a piece of code ends: with a value or by    *)
(* raising.  msg is str(e) as a token text.                                *)
(***************************************************************************)
NoExc == [type |-> "", msg |-> <<>>]
Ret(success, payload) ==
    [kind |-> "return", success |-> success, payload |-> payload, exc |-> NoExc]
Raise(type, msg) ==
    [kind |-> "raise", success |-> FALSE, payload |-> <<>>,
     exc |-> [type |-> type, msg |-> msg]]

\* the classes derived from Exception that the pipeline can raise
ExceptionTypes ==
    {"RuntimeError", "KeyError", "AttributeError", "JSONDecodeError",
     "PermissionError", "ConnectionError", "ValueError"}

(***************************************************************************)
(* The file system as extract_text sees it.  A path is known by its base   *)
(* name and by the extension of its lower-cased form.                      *)
(***************************************************************************)
PathTable ==
    { [path |-> "/in/notes.txt",   base |-> "notes.txt",   ext |-> ".txt"],
      [path |-> "/in/NOTES.TXT",   base |-> "NOTES.TXT",   ext |-> ".txt"],
      [path |-> "/in/bill.pdf",    base |-> "bill.pdf",    ext |-> ".pdf"],
      [path |-> "/in/SCAN.PDF",    base |-> "SCAN.PDF",    ext |-> ".pdf"],
      [path |-> "/in/receipt.jpg", base |-> "receipt.jpg", ext |-> ".jpg"],
      [path |-> "/in/photo.jpeg",  base |-> "photo.jpeg",  ext |-> ".jpeg"],
      [path |-> "/in/scan.png",    base |-> "scan.png",    ext |-> ".png"],
      [path |-> "/in/anim.gif",    base |-> "anim.gif",    ext |-> ".gif"],
      [path |-> "/in/shot.bmp",    base |-> "shot.bmp",    ext |-> ".bmp"],
      [path |-> "/in/fax.tiff",    base |-> "fax.tiff",    ext |-> ".tiff"],
      [path |-> "/in/setup.exe",   base |-> "setup.exe",   ext |-> ".exe"],
      [path |-> "/in/letter.doc",  base |-> "letter.doc",  ext |-> ".doc"],
      [path |-> "/in/README",      base |-> "README",      ext |-> ""] }
Paths == {e.path : e \in PathTable}
PathEntry(path) == CHOOSE e \in PathTable : e.path = path
\* os.path.basename(path)
basename(path) == PathEntry(path).base
\* os.path.splitext(file_path.lower())[1]
splitext_lower(path) == PathEntry(path).ext

\* bytes of a file; 0xC3 0xA9 is the UTF-8 encoding of one character,
\* a lone 0xE9 is valid Latin-1 and invalid UTF-8
Ascii == {"C", "o", "4", " ", "\n"}
Whitespace == {" ", "\n"}
\* a file longer than the 2000 characters a description keeps: a space,
\* 2000 times "C", a final "4" and a space
LongContent ==
    [i \in 1..2003 |-> IF i \in {1, 2003} THEN " " ELSE IF i = 2002 THEN "4" ELSE "C"]
Contents ==
    { <<>>, <<" ">>, <<"C", "o", " ", "4">>, <<" ", "C", "\n">>,
      <<"0xC3", "0xA9">>, <<"C", "0xE9", " ">>, LongContent }

\* a file of the file system: whether it exists, whether open() succeeds
Files ==
    { [path |-> p, exists |-> e, readable |-> r, bytes |-> b] :
        p \in Paths, e \in BOOLEAN, r \in BOOLEAN, b \in Contents }
\* the files as the calls see them: only an existing .txt file has content
\* that is read, only an existing file can be readable
FileStates ==
    { f \in Files :
        /\ (~f.exists => ~f.readable)
        /\ (~(f.exists /\ f.readable /\ splitext_lower(f.path) = ".txt")
               => f.bytes = <<>>) }

\* bytes.decode("utf-8"): [ok, chars]; ok = FALSE is UnicodeDecodeError.
\* The bytes are valid when every byte is ASCII, a lead byte 0xC3 followed
\* by 0xA9, or a continuation byte 0xA9 that follows 0xC3.
IsLeadOrAscii(x) == x # "0xA9"
decode_utf8(b) ==
    LET ok == \A i \in 1..Len(b) :
                \/ b[i] \in Ascii
                \/ b[i] = "0xC3" /\ i < Len(b) /\ b[i + 1] = "0xA9"
                \/ b[i] = "0xA9" /\ i > 1 /\ b[i - 1] = "0xC3"
        starts == SelectSeq(b, IsLeadOrAscii) IN
    IF ok
    THEN [ok |-> TRUE,
          chars |-> [i \in 1..Len(starts) |->
                       IF starts[i] = "0xC3" THEN "e-acute" ELSE starts[i]]]
    ELSE [ok |-> FALSE, chars |-> <<>>]

\* bytes.decode("latin-1"): one character per byte, never fails
decode_latin1(b) ==
    [i \in 1..Len(b) |->
        CASE b[i] = "0xC3" -> "A-tilde"
          [] b[i] = "0xA9" -> "copyright"
          [] b[i] = "0xE9" -> "e-acute"
          [] OTHER -> b[i]]

\* str.strip()
RECURSIVE lstrip(_)
lstrip(cs) ==
    IF Len(cs) > 0 /\ cs[1] \in Whitespace THEN lstrip(Tail(cs)) ELSE cs
RECURSIVE rstrip(_)
rstrip(cs) ==
    IF Len(cs) > 0 /\ cs[Len(cs)] \in Whitespace
    THEN rstrip(SubSeq(cs, 1, Len(cs) - 1)) ELSE cs
strip(cs) == rstrip(lstrip(cs))

\* s[:n]
Prefix(s, n) == SubSeq(s, 1, IF Len(s) < n THEN Len(s) ELSE n)

(***************************************************************************)
(* Config (src/config.py): the configuration is a dict loaded from a file  *)
(***************************************************************************)
DictGet(d, key, default) == IF key \in DOMAIN d THEN d[key] ELSE default
DefaultConfig == [openai_api_key |-> "", openai_model |-> "gpt-4o-mini"]
\* what load_config can return: the default, a stored key, a file without key
Configs ==
    { DefaultConfig,
      [openai_api_key |-> "sk-test", openai_model |-> "gpt-4o-mini"],
      [openai_model |-> "gpt-4o-mini"] }
ApiKeys == {"", "sk-test"}

\* Config.get_openai_api_key: the key, or None when it is missing or empty
get_openai_api_key(cfg) ==
    LET api_key == DictGet(cfg, "openai_api_key", "") IN
    IF api_key # "" THEN Str(api_key) ELSE None

\* Config.get_openai_model
get_openai_model(cfg) == DictGet(cfg, "openai_model", "gpt-4o-mini")

\* TextExtractor._headers: the Authorization header, or RuntimeError
_headers_unchecked(cfg) ==
    Ret(TRUE, <<Pair("Authorization", get_openai_api_key(cfg))>>)
_headers(cfg) ==
    LET api_key == get_openai_api_key(cfg) IN
    IF api_key = None \/ api_key = Str("")
    THEN Raise("RuntimeError", <<Msg("OpenAI API key not configured")>>)
    ELSE Ret(TRUE, <<Pair("Authorization", api_key)>>)

(***************************************************************************)
(* What the remote service can answer.                                     *)
(***************************************************************************)
Statuses == {200, 300, 401, 429, 500}

Some(t) == [has |-> TRUE, text |-> t]
Absent == [has |-> FALSE, text |-> <<>>]

\* every text of at most n tokens over the alphabet
AllSeqs(n) == UNION {[1..k -> Alphabet] : k \in 0..n}
\* well-formed objects of at most MaxMembers members (keys may repeat),
\* alone or wrapped in a token of noise or a stray brace
Members ==
    {MemberS, MemberI, MemberB, MemberU, Pair("source_filename", Str("y"))}
ObjectTexts ==
    { <<LB>> \o JoinTokens([i \in 1..Len(ms) |-> <<ms[i]>>]) \o <<RB>> :
        ms \in UNION {[1..k -> Members] : k \in 0..MaxMembers} }
Affixes == {<<>>, <<NOISE>>, <<LB>>, <<RB>>}
WrappedTexts ==
    {pre \o o \o post : pre \in Affixes, o \in ObjectTexts, post \in Affixes}
Texts == AllSeqs(MaxLen) \cup WrappedTexts

\* r.text of a response and its number of characters; LongBody stands for
\* an error page of 2001 characters
LongBody == "<html> ... 2001 characters ... </html>"
BodyTable ==
    { [text |-> "{\"id\": \"f1\"}", len |-> 12], [text |-> "{}", len |-> 2],
      [text |-> "<html>", len |-> 6], [text |-> "error body", len |-> 10],
      [text |-> "json body", len |-> 9], [text |-> LongBody, len |-> 2001] }
\* len(r.text)
BodyLen(text) == (CHOOSE e \in BodyTable : e.text = text).len

\* the body of an upload response
UploadBodies ==
    { [text |-> "{\"id\": \"f1\"}", isjson |-> TRUE, hasid |-> TRUE, id |-> "f1"],
      [text |-> "{}", isjson |-> TRUE, hasid |-> FALSE, id |-> ""],
      [text |-> "<html>", isjson |-> FALSE, hasid |-> FALSE, id |-> ""],
      [text |-> LongBody, isjson |-> FALSE, hasid |-> FALSE, id |-> ""] }
NoBody == [text |-> "", isjson |-> FALSE, hasid |-> FALSE, id |-> ""]
NoResponse == [kind |-> "none", status |-> 0, body |-> NoBody]
\* requests.post raised (connection error, timeout) or returned a response
UploadResponses ==
    { [kind |-> "exception", status |-> 0, body |-> NoBody] }
      \cup { [kind |-> "http", status |-> st, body |-> b] :
               st \in Statuses, b \in UploadBodies }
      \cup { [kind |-> "http", status |-> 299,
              body |-> [text |-> "{}", isjson |-> TRUE, hasid |-> FALSE, id |-> ""]] }

\* the JSON document of a generation response: a dict that may hold a
\* top-level output_text and a nested output[0].content[0].text
NoData == [isdict |-> FALSE, output_text |-> Absent, nested |-> Absent]
DataSet ==
    { [isdict |-> TRUE, output_text |-> Some(t), nested |-> Absent] : t \in Texts }
      \cup { [isdict |-> TRUE, output_text |-> Absent, nested |-> Some(t)] :
               t \in WrappedTexts \cup AllSeqs(1) }
      \cup { [isdict |-> TRUE, output_text |-> Some(<<>>), nested |-> Some(t)] :
               t \in ObjectTexts }
      \cup { [isdict |-> TRUE, output_text |-> Some(<<LB, MemberS, RB>>),
              nested |-> Some(<<LB, MemberI, RB>>)] }
      \cup { [isdict |-> TRUE, output_text |-> Absent, nested |-> Absent], NoData }
NoGenResponse ==
    [kind |-> "none", status |-> 0, text |-> "", isjson |-> FALSE, data |-> NoData]
GenResponses ==
    { [kind |-> "exception", status |-> 0, text |-> "", isjson |-> FALSE,
       data |-> NoData] }
      \cup { [kind |-> "http", status |-> st, text |-> "error body",
              isjson |-> FALSE, data |-> NoData] : st \in Statuses }
      \cup { [kind |-> "http", status |-> 200, text |-> "json body",
              isjson |-> TRUE, data |-> d] : d \in DataSet }
      \cup { [kind |-> "http", status |-> 299, text |-> "json body",
              isjson |-> TRUE,
              data |-> [isdict |-> TRUE, output_text |-> Some(<<LB, MemberI, RB>>),
                        nested |-> Absent]] }

\* the prompt template file prompts/bill_extraction.txt, when it can be read
DefaultCategories ==
    << "groceries", "utilities", "transportation", "entertainment",
       "healthcare", "personal care", "education", "miscellaneous" >>
CategoriesJson(categories) ==
    [c |-> "json", k |-> "categories",
     v |-> List([i \in 1..Len(categories) |-> Str(categories[i])])]
Templates ==
    { Absent,
      Some(<<Msg("template head"), CategoriesJson(DefaultCategories),
             Msg("template rules")>>),
      Some(<<Msg("template without the list")>>) }

\* the category lists a caller passes; None stands for a missing list
CategoryArgs == {None, List(<<>>), List(<<Str("food"), Str("other")>>)}

(***************************************************************************)
(* TextExtractor (src/text_extractor.py)                                   *)
(***************************************************************************)
\* the extensions can_extract accepts
supported_extensions ==
    {".pdf", ".txt", ".jpg", ".jpeg", ".png", ".gif", ".bmp", ".tiff"}
can_extract(path) == splitext_lower(path) \in supported_extensions

\* `categories or []` as a sequence of strings
or_empty(arg) ==
    IF arg = None \/ arg.l = <<>> THEN <<>>
    ELSE [i \in 1..Len(arg.l) |-> arg.l[i].s]

\* _extract_from_txt: the stripped text of the file, decoded as UTF-8 and,
\* when that fails, as Latin-1; open() may raise
_extract_from_txt(f) ==
    IF ~f.readable
    THEN Raise("PermissionError", <<Msg("[Errno 13] Permission denied: "), Msg(f.path)>>)
    ELSE LET u == decode_utf8(f.bytes) IN
         IF u.ok THEN Ret(TRUE, strip(u.chars))
         ELSE Ret(TRUE, strip(decode_latin1(f.bytes)))

\* _wrap_plain_text_as_bill
_wrap_plain_text_as_bill_untruncated(content, categories) ==
    LET category == IF categories # <<>> THEN Str(categories[1]) ELSE None IN
    Dict(<< Pair("bill_number", None),
            Pair("items", List(<<
                Dict(<< Pair("description", Chars(content)),
                        Pair("quantity", None),
                        Pair("unit_price", None),
                        Pair("price", Float(0)),
                        Pair("category", category) >>) >>)),
            Pair("source_filename", Str("text-file")) >>)
_wrap_plain_text_as_bill(content, categories) ==
    LET category == IF categories # <<>> THEN Str(categories[1]) ELSE None IN
    Dict(<< Pair("bill_number", None),
            Pair("items", List(<<
                Dict(<< Pair("description", Chars(Prefix(content, 2000))),
                        Pair("quantity", None),
                        Pair("unit_price", None),
                        Pair("price", Float(0)),
                        Pair("category", category) >>) >>)),
            Pair("source_filename", Str("text-file")) >>)

\* the .txt branch of extract_text (lines 40-44)
extract_txt(f, categories) ==
    LET r == _extract_from_txt(f) IN
    IF r.kind = "raise" THEN r
    ELSE IF ~r.success THEN Ret(FALSE, r.payload)
    ELSE Ret(TRUE, dumps(_wrap_plain_text_as_bill(r.payload, categories)))

\* _upload_file up to the request: open the file, build the headers
_upload_file_open(cfg, f) ==
    IF ~f.readable
    THEN Raise("PermissionError", <<Msg("[Errno 13] Permission denied: "), Msg(f.path)>>)
    ELSE _headers(cfg)

\* _upload_file from the response on: the file id, or an exception
_upload_file_anystatus(r) ==
    IF r.kind = "exception" THEN Raise("ConnectionError", <<Msg("connection failed")>>)
    ELSE IF ~r.body.isjson
    THEN Raise("ValueError", <<Msg("Expecting value")>>)
    ELSE IF ~r.body.hasid THEN Raise("KeyError", <<Msg("'id'")>>)
    ELSE Ret(TRUE, <<Msg(r.body.id)>>)
_upload_file_result(r) ==
    IF r.kind = "exception" THEN Raise("ConnectionError", <<Msg("connection failed")>>)
    ELSE IF r.status >= 300
    THEN Raise("RuntimeError",
               <<Msg("File upload failed: "), Msg(ToString(r.status)), Msg(" "),
                 Msg(r.body.text)>>)
    ELSE IF ~r.body.isjson
    THEN Raise("ValueError", <<Msg("Expecting value")>>)
    ELSE IF ~r.body.hasid THEN Raise("KeyError", <<Msg("'id'")>>)
    ELSE Ret(TRUE, <<Msg(r.body.id)>>)

\* _responses_post from the response on: the JSON document, or an exception
_responses_post_result_400(r) ==
    IF r.kind = "exception" THEN Raise("ConnectionError", <<Msg("connection failed")>>)
    ELSE IF r.status >= 400
    THEN Raise("RuntimeError",
               <<Msg("Responses API error: "), Msg(ToString(r.status)), Msg(" "),
                 Msg(r.text)>>)
    ELSE IF ~r.isjson THEN Raise("ValueError", <<Msg("Expecting value")>>)
    ELSE Ret(TRUE, <<>>)
_responses_post_result(r) ==
    IF r.kind = "exception" THEN Raise("ConnectionError", <<Msg("connection failed")>>)
    ELSE IF r.status >= 300
    THEN Raise("RuntimeError",
               <<Msg("Responses API error: "), Msg(ToString(r.status)), Msg(" "),
                 Msg(r.text)>>)
    ELSE IF ~r.isjson THEN Raise("ValueError", <<Msg("Expecting value")>>)
    ELSE Ret(TRUE, <<>>)

\* the strict JSON schema of a bill (lines 97-131).  "type" is the sequence
\* of the type names it lists, a single name a sequence of one.
category_prop_enum_always(categories) ==
    [anyOf |-> << [type |-> <<"null">>],
                  [type |-> <<"string">>, enum |-> categories] >>]
category_prop(categories) ==
    IF categories # <<>>
    THEN [anyOf |-> << [type |-> <<"null">>],
                       [type |-> <<"string">>, enum |-> categories] >>]
    ELSE [type |-> <<"string", "null">>]
item_properties(categories) ==
    << [name |-> "description", prop |-> [type |-> <<"string">>]],
       [name |-> "quantity", prop |-> [type |-> <<"number", "null">>]],
       [name |-> "unit_price", prop |-> [type |-> <<"number", "null">>]],
       [name |-> "price", prop |-> [type |-> <<"number">>]],
       [name |-> "category", prop |-> category_prop(categories)] >>
\* list(properties.keys())
IsNotNullable(p) ==
    "type" \in DOMAIN p.prop /\ \A i \in 1..Len(p.prop.type) : p.prop.type[i] # "null"
PropertyKeys_not_nullable(props) ==
    LET kept == SelectSeq(props, IsNotNullable) IN
    [i \in 1..Len(kept) |-> kept[i].name]
PropertyKeys(props) == [i \in 1..Len(props) |-> props[i].name]
item_schema(categories) ==
    [type |-> "object", additionalProperties |-> FALSE,
     properties |-> item_properties(categories),
     required |-> PropertyKeys(item_properties(categories))]
top_properties(categories) ==
    << [name |-> "bill_number", prop |-> [type |-> <<"string", "null">>]],
       [name |-> "items",
        prop |-> [type |-> <<"array">>, items |-> item_schema(categories)]],
       [name |-> "source_filename", prop |-> [type |-> <<"string">>]] >>
bill_schema(categories) ==
    [type |-> "object", additionalProperties |-> FALSE,
     properties |-> top_properties(categories),
     required |-> PropertyKeys(top_properties(categories))]

\* _load_prompt: the template with the default list replaced by the
\* categories, or the built-in prompt when the template cannot be read
_load_prompt_no_replace(template, categories) ==
    IF template.has THEN template.text
    ELSE << Msg("You are an expert at reading bills/invoices/receipts"),
            Msg("ALLOWED CATEGORIES"), CategoriesJson(categories),
            Msg("OUTPUT FORMAT (JSON ONLY)"), Msg("RULES") >>
_load_prompt(template, categories) ==
    IF template.has
    THEN [i \in 1..Len(template.text) |->
            IF template.text[i] = CategoriesJson(DefaultCategories)
            THEN CategoriesJson(categories) ELSE template.text[i]]
    ELSE << Msg("You are an expert at reading bills/invoices/receipts"),
            Msg("ALLOWED CATEGORIES"), CategoriesJson(categories),
            Msg("OUTPUT FORMAT (JSON ONLY)"), Msg("RULES") >>

\* the body of the generation request (lines 137-158)
responses_payload(cfg, prompt, file_id, categories) ==
    [model |-> get_openai_model(cfg),
     input_text |-> prompt,
     input_file |-> file_id,
     format |-> [type |-> "json_schema", name |-> "bill_extraction",
                 schema |-> bill_schema(categories), strict |-> TRUE],
     max_output_tokens |-> 8000]

\* json.dumps(data) of a generation response document
dumps_data(data) ==
    <<LB>>
      \o (IF data.output_text.has
          THEN <<Pair("output_text", Chars(data.output_text.text))>> ELSE <<>>)
      \o (IF data.output_text.has /\ data.nested.has THEN <<COMMA>> ELSE <<>>)
      \o (IF data.nested.has
          THEN <<Pair("output", Chars(data.nested.text))>> ELSE <<>>)
      \o <<RB>>

\* lines 164-169: the JSON text of the response document.  [found, text]:
\* output_text when it is there and not empty, else the nested text
output_json_text_nested_first(data) ==
    IF data.nested.has THEN [found |-> TRUE, text |-> data.nested.text]
    ELSE IF data.output_text.has /\ data.output_text.text # <<>>
    THEN [found |-> TRUE, text |-> data.output_text.text]
    ELSE [found |-> FALSE, text |-> <<>>]
output_json_text(data) ==
    IF data.output_text.has /\ data.output_text.text # <<>>
    THEN [found |-> TRUE, text |-> data.output_text.text]
    ELSE IF data.nested.has THEN [found |-> TRUE, text |-> data.nested.text]
    ELSE [found |-> FALSE, text |-> <<>>]

\* text.find(tok), text.rfind(tok): 0-based index, -1 when there is none
find(text, tok) ==
    LET hits == {i \in 1..Len(text) : text[i] = tok} IN
    IF hits = {} THEN -1
    ELSE (CHOOSE i \in hits : \A j \in hits : i <= j) - 1
rfind(text, tok) ==
    LET hits == {i \in 1..Len(text) : text[i] = tok} IN
    IF hits = {} THEN -1
    ELSE (CHOOSE i \in hits : \A j \in hits : i >= j) - 1
\* text[start:stop] for 0 <= start
Slice(text, start, stop) == SubSeq(text, start + 1, stop)

\* _coerce_to_json: the text from the first { to the last }
_coerce_to_json_first_close(text) ==
    LET start == find(text, LB)
        end == find(text, RB) IN
    IF start # -1 /\ end # -1 /\ end > start
    THEN Slice(text, start, end + 1) ELSE text
_coerce_to_json(text) ==
    LET start == find(text, LB)
        end == rfind(text, RB) IN
    IF start # -1 /\ end # -1 /\ end > start
    THEN Slice(text, start, end + 1) ELSE text

\* lines 172-176: json.loads, and once more on the trimmed text when the
\* first attempt raises JSONDecodeError
parse_json_text(json_text) ==
    LET first == loads(json_text) IN
    IF first.ok THEN first ELSE loads(_coerce_to_json(json_text))

\* lines 178-179: inject the file name when it is missing and serialise
inject_and_dump(obj, path) ==
    IF obj.t # "dict"
    THEN Raise("AttributeError",
               <<Msg("'list' object has no attribute 'setdefault'")>>)
    ELSE Ret(TRUE, dumps(setdefault(obj, "source_filename", Str(basename(path)))))

\* _extract_bill_via_responses_api from the generation response on
bill_from_response(r, path) ==
    LET posted == _responses_post_result(r) IN
    IF posted.kind = "raise" THEN posted
    ELSE IF ~r.data.isdict
    THEN Raise("AttributeError", <<Msg("'list' object has no attribute 'get'")>>)
    ELSE LET jt == output_json_text(r.data) IN
         IF ~jt.found
         THEN Ret(FALSE, <<Msg("Unexpected API response format: ")>>
                           \o Prefix(dumps_data(r.data), 2000))
         ELSE LET p == parse_json_text(jt.text) IN
              IF ~p.ok THEN Raise("JSONDecodeError", <<Msg("Expecting value")>>)
              ELSE inject_and_dump(p.val, path)

\* the except clause of extract_text (lines 48-50): every Exception becomes
\* a failure result
except_RuntimeError(outcome) ==
    IF outcome.kind = "raise" /\ outcome.exc.type = "RuntimeError"
    THEN Ret(FALSE, <<Msg("Error extracting text: ")>> \o outcome.exc.msg)
    ELSE outcome
except_Exception(outcome) ==
    IF outcome.kind = "raise" /\ outcome.exc.type \in ExceptionTypes
    THEN Ret(FALSE, <<Msg("Error extracting text: ")>> \o outcome.exc.msg)
    ELSE outcome

(***************************************************************************)
(* The steps of one extract_text call.  A step either returns (or raises)  *)
(* or leaves a request on the wire and waits for its response.             *)
(***************************************************************************)
Stop(outcome) == [next |-> "return", outcome |-> outcome]
Go(target, outcome) == [next |-> target, outcome |-> outcome]

\* extract_text from the call up to the upload request (lines 34-47, 62-67)
extract_text_start_unchecked(cfg, f, categories) ==
    IF splitext_lower(f.path) = ".txt" THEN Stop(extract_txt(f, categories))
    ELSE LET h == _upload_file_open(cfg, f) IN
         IF h.kind = "raise" THEN Stop(h) ELSE Go("upload", h)
extract_text_start(cfg, f, categories) ==
    IF ~f.exists THEN Stop(Ret(FALSE, <<Msg("File not found")>>))
    ELSE IF splitext_lower(f.path) = ".txt" THEN Stop(extract_txt(f, categories))
    ELSE LET h == _upload_file_open(cfg, f) IN
         IF h.kind = "raise" THEN Stop(h) ELSE Go("upload", h)

\* from the upload response up to the generation request (lines 68-70,
\* 91-161, 73-78)
after_upload_retry(cfg, r) ==
    LET up == _upload_file_result(r) IN
    IF up.kind = "raise" THEN Go("upload", _headers(cfg))
    ELSE LET h == _headers(cfg) IN
         IF h.kind = "raise" THEN Stop(h) ELSE Go("generate", up)
after_upload(cfg, r) ==
    LET up == _upload_file_result(r) IN
    IF up.kind = "raise" THEN Stop(up)
    ELSE LET h == _headers(cfg) IN
         IF h.kind = "raise" THEN Stop(h) ELSE Go("generate", up)

\* from the generation response up to the return (lines 79-81, 163-179)
after_generation(r, path) == Stop(bill_from_response(r, path))

(***************************************************************************)
(* State                                                                   *)
(***************************************************************************)
VARIABLES
    config,        \* Config.config of the extractor's Config instance
    pc,            \* where the call is: idle, upload, generate, done, raised
    file,          \* the file at file_path, as the call finds it
    categories,    \* `categories or []`
    uploads,       \* POST /files requests issued by the call
    generations,   \* POST /responses requests issued by the call
    request,       \* the request on the wire
    upload_resp,   \* the response the upload got
    gen_resp,      \* the response the generation request got
    json_text,     \* the local json_text of line 164-167, when it was found
    parsed,        \* the local obj of line 173-176, before the injection
    result,        \* the (success, payload) pair returned
    log            \* the record logger.error wrote (lines 49)

\* FileManager.import_file (src/file_manager.py)
VARIABLES
    im_pc,             \* idle, probe (the while loop of line 80), done
    source_path,       \* the file being imported
    date_dir,          \* the names that exist in the date directory
    dir_before,        \* date_dir when the call started
    destination_path,  \* the local destination_path (its file name)
    counter,           \* the local counter
    extraction,        \* what step 1 did: none, skipped, raised, failed, ok
    overwritten,       \* the copy wrote over a file that existed
    imported           \* the value returned: a path or None

extractor_vars ==
    << config, pc, file, categories, uploads, generations, request,
       upload_resp, gen_resp, json_text, parsed, result, log >>
import_vars ==
    << im_pc, source_path, date_dir, dir_before, destination_path, counter,
       extraction, overwritten, imported >>

\* the SQLite database (src/database.py) and LedgerApp (src/ledger.py)
VARIABLES
    db,                    \* the tables: accounts, items, the AUTOINCREMENT counter
    db_call,               \* the last DatabaseManager call and the tables before it
    accounts,              \* LedgerApp.accounts
    items,                 \* LedgerApp.items
    account_listbox,       \* the rows LedgerApp.account_listbox shows
    selected_account_var,  \* the variable of the account combo box
    ui_op,                 \* the last Rename or Delete of an account
    handler_raised         \* a handler of LedgerApp ended with an exception

\* config.json and the Config objects over it (src/config.py)
VARIABLES
    config_file,           \* the file: whether it exists, the dictionary in it
    instances,             \* the Config objects: created or not, self.config
    key_set,               \* the last key given to set_openai_api_key, and the
                           \* objects that saved a model after it
    settings_call,         \* the last call on a Config object or its extractor
    authorization          \* _headers() of the last extraction

store_vars == << db, db_call >>
settings_vars == << config_file, instances, key_set, settings_call, authorization >>
app_vars ==
    << accounts, items, account_listbox, selected_account_var, ui_op,
       handler_raised >>
vars == << extractor_vars, import_vars, store_vars, app_vars, settings_vars >>
not_extractor == << import_vars, store_vars, app_vars, settings_vars >>
not_import == << extractor_vars, store_vars, app_vars, settings_vars >>
not_store == << extractor_vars, import_vars, app_vars, settings_vars >>
not_ledger == << extractor_vars, import_vars, db_call, settings_vars >>
not_settings == << extractor_vars, import_vars, store_vars, app_vars >>

NoFile == [path |-> "", exists |-> FALSE, readable |-> FALSE, bytes |-> <<>>]
NoRequest == [url |-> "", headers |-> <<>>, body |-> <<>>]
NoResult == [success |-> FALSE, payload |-> <<>>]
NoLog == [level |-> "", exc_type |-> "", path |-> ""]
NoObj == [has |-> FALSE, obj |-> None]

\* no call is in progress
Idle ==
    /\ pc = "idle"
    /\ file = NoFile
    /\ categories = <<>>
    /\ uploads = 0
    /\ generations = 0
    /\ request = NoRequest
    /\ upload_resp = NoResponse
    /\ gen_resp = NoGenResponse
    /\ json_text = Absent
    /\ parsed = NoObj
    /\ result = NoResult
    /\ log = NoLog

\* no import is in progress
NoSource == [path |-> "", exists |-> FALSE, readable |-> FALSE, bytes |-> <<>>]
ImportIdle ==
    /\ im_pc = "idle"
    /\ source_path = NoSource
    /\ dir_before = {}
    /\ destination_path = ""
    /\ counter = 0
    /\ extraction = "none"
    /\ overwritten = FALSE
    /\ imported = None

\* init_database on a new file: empty tables; no call yet
EmptyStore == [accounts |-> {}, items |-> {}, seq |-> 0]
NoCall == [op |-> "", name |-> "", new_name |-> "", before |-> EmptyStore,
           raised |-> FALSE]
StoreIdle == db = EmptyStore /\ db_call = NoCall
NoUiOp == [op |-> "", row |-> 0, shown |-> "", acted |-> ""]
AppIdle ==
    /\ accounts = <<>>
    /\ items = <<>>
    /\ account_listbox = <<>>
    /\ selected_account_var = ""
    /\ ui_op = NoUiOp
    /\ handler_raised = FALSE

\* the Config objects of the application: each TextExtractor makes its own
Instances == {"A", "B"}
NotCreated == [created |-> FALSE, config |-> [openai_model |-> ""]]
NoConfigFile == [exists |-> FALSE, config |-> [openai_model |-> ""]]
NoKeySet == [has |-> FALSE, text |-> "", then_saved |-> {}]
NoSettingsCall == [op |-> "", inst |-> ""]
SettingsIdle ==
    /\ config_file = NoConfigFile
    /\ instances = [i \in Instances |-> NotCreated]
    /\ key_set = NoKeySet
    /\ settings_call = NoSettingsCall
    /\ authorization = Raise("", <<>>)

\* TextExtractor.__init__: a Config loaded from the file or the default
Init ==
    /\ config \in Configs
    /\ Idle
    /\ ImportIdle
    /\ date_dir = {}
    /\ StoreIdle
    /\ AppIdle
    /\ SettingsIdle

\* the effect of a step on the position, the counters, the result and the
\* log; an exception no except clause catches leaves the call (raised)
Apply(step, req, path) ==
    LET caught == except_Exception(step.outcome)
        returns == step.next = "return" IN
    /\ pc' = IF ~returns THEN step.next
             ELSE IF caught.kind = "raise" THEN "raised" ELSE "done"
    /\ result' = IF returns /\ caught.kind = "return"
                 THEN [success |-> caught.success, payload |-> caught.payload]
                 ELSE NoResult
    /\ log' = IF returns /\ step.outcome.kind = "raise" /\ caught.kind = "return"
              THEN [level |-> "error", exc_type |-> step.outcome.exc.type,
                    path |-> path]
              ELSE NoLog
    /\ uploads' = uploads + (IF step.next = "upload" THEN 1 ELSE 0)
    /\ generations' = generations + (IF step.next = "generate" THEN 1 ELSE 0)
    /\ request' = IF returns THEN NoRequest ELSE req

\* extract_text(file_path, categories) is called
extract_text(f, arg) ==
    LET step == extract_text_start(config, f, or_empty(arg)) IN
    /\ pc = "idle"
    /\ file' = f
    /\ categories' = or_empty(arg)
    /\ Apply(step, [url |-> "/files", headers |-> step.outcome.payload,
                    body |-> [file |-> basename(f.path), purpose |-> "user_data"]],
             f.path)
    /\ UNCHANGED <<config, upload_resp, gen_resp, json_text, parsed>>

\* the upload request ends: requests.post returns or raises
UploadRespond(r, template) ==
    LET step == after_upload(config, r)
        file_id == r.body.id
        prompt == _load_prompt(template, categories) IN
    /\ pc = "upload"
    /\ upload_resp' = r
    /\ Apply(step, [url |-> "/responses", headers |-> _headers(config).payload,
                    body |-> responses_payload(config, prompt, file_id, categories)],
             file.path)
    /\ UNCHANGED <<config, file, categories, gen_resp, json_text, parsed>>

\* the generation request ends: requests.post returns or raises
GenRespond(r) ==
    LET step == after_generation(r, file.path)
        posted == _responses_post_result(r)
        jt == output_json_text(r.data)
        reached == posted.kind = "return" /\ r.data.isdict /\ jt.found
        p == parse_json_text(jt.text) IN
    /\ pc = "generate"
    /\ gen_resp' = r
    /\ json_text' = IF reached THEN Some(jt.text) ELSE Absent
    /\ parsed' = IF reached /\ p.ok THEN [has |-> TRUE, obj |-> p.val] ELSE NoObj
    /\ Apply(step, NoRequest, file.path)
    /\ UNCHANGED <<config, file, categories, upload_resp>>

\* the caller takes the result; the next call starts afresh
Return ==
    /\ pc = "done"
    /\ pc' = "idle"
    /\ file' = NoFile
    /\ categories' = <<>>
    /\ uploads' = 0
    /\ generations' = 0
    /\ request' = NoRequest
    /\ upload_resp' = NoResponse
    /\ gen_resp' = NoGenResponse
    /\ json_text' = Absent
    /\ parsed' = NoObj
    /\ result' = NoResult
    /\ log' = NoLog
    /\ UNCHANGED config

\* Config.set_openai_api_key between two calls
set_openai_api_key(api_key) ==
    /\ pc = "idle"
    /\ config' = [k \in DOMAIN config \cup {"openai_api_key"} |->
                    IF k = "openai_api_key" THEN api_key ELSE config[k]]
    /\ UNCHANGED << pc, file, categories, uploads, generations, request,
                    upload_resp, gen_resp, json_text, parsed, result, log >>

\* each step is taken at its own position of the call (the pc conjunct of
\* the action), which is tested before the inputs are enumerated
Next ==
    \/ /\ pc = "idle"
       /\ \E f \in FileStates, arg \in CategoryArgs :
             extract_text(f, arg) /\ UNCHANGED not_extractor
    \/ /\ pc = "upload"
       /\ \E r \in UploadResponses, template \in Templates :
             UploadRespond(r, template) /\ UNCHANGED not_extractor
    \/ /\ pc = "generate"
       /\ \E r \in GenResponses : GenRespond(r) /\ UNCHANGED not_extractor
    \/ Return /\ UNCHANGED not_extractor
    \/ \E api_key \in ApiKeys :
          set_openai_api_key(api_key) /\ UNCHANGED not_extractor

Spec == Init /\ [][Next]_vars

(***************************************************************************)
(* FileManager.import_file (src/file_manager.py).  The while loop of lines *)
(* 80-83 is one step per test of os.path.exists.                           *)
(***************************************************************************)
\* most names the date directory holds before an import starts
MaxDirSize == 6

\* os.path.splitext(filename) of the files that are imported
StemTable ==
    { [filename |-> "letter.doc", stem |-> "letter", extension |-> ".doc"],
      [filename |-> "README", stem |-> "README", extension |-> ""],
      [filename |-> "bill.pdf", stem |-> "bill", extension |-> ".pdf"],
      [filename |-> "notes.txt", stem |-> "notes", extension |-> ".txt"] }
StemEntry(filename) == CHOOSE e \in StemTable : e.filename = filename
ImportPaths == {"/in/letter.doc", "/in/README", "/in/bill.pdf", "/in/notes.txt"}
\* the source files: one that is there and one that vanished before the copy
ImportSources ==
    { f \in FileStates : f.path \in ImportPaths /\ f.bytes = <<>>
                           /\ f.exists = f.readable }
\* names the date directory can hold when the application starts
DirNames ==
    {"letter.doc", "letter_1.doc", "letter_2.doc", "README", "README_1", "bill.pdf"}

\* what extract_text returns once it is called with both arguments
ExtractResults ==
    { Ret(TRUE, <<Msg("{\"items\": []}")>>), Ret(TRUE, <<>>),
      Ret(FALSE, <<Msg("Error extracting text: ")>>) }

\* the call self.text_extractor.extract_text(*args) of line 44: the method
\* takes file_path and categories, neither has a default
call_extract_text(args, returned) ==
    IF Len(args) # 2
    THEN Raise("TypeError",
               <<Msg("extract_text() missing 1 required positional argument: 'categories'")>>)
    ELSE returned

\* os.path.exists(os.path.join(date_dir, name))
path_exists_never(dir, name) == FALSE
path_exists(dir, name) == name \in dir

\* f"{base_name}_{counter}{extension}" (line 81)
new_filename(filename, n) ==
    StemEntry(filename).stem \o "_" \o ToString(n) \o StemEntry(filename).extension

\* lines 40-79: step 1 and the set-up of the loop
import_file(f, parent_widget, returned, user_confirmed) ==
    LET filename == basename(f.path)
        r == IF can_extract(f.path)
             THEN call_extract_text(<<f.path>>, returned)
             ELSE Ret(FALSE, <<>>)
        extracted == can_extract(f.path) /\ r.kind = "return"
                       /\ r.success /\ r.payload # <<>>
        cancelled == extracted /\ parent_widget /\ ~user_confirmed
        stops == r.kind = "raise" \/ cancelled IN
    /\ im_pc = "idle"
    /\ Cardinality(date_dir) <= MaxDirSize
    /\ source_path' = f
    /\ dir_before' = date_dir
    /\ extraction' = IF ~can_extract(f.path) THEN "skipped"
                     ELSE IF r.kind = "raise" THEN "raised"
                     ELSE IF extracted THEN "ok" ELSE "failed"
    /\ im_pc' = IF stops THEN "done" ELSE "probe"
    /\ destination_path' = IF stops THEN "" ELSE filename
    /\ counter' = IF stops THEN 0 ELSE 1
    /\ imported' = None
    /\ UNCHANGED <<date_dir, overwritten>>

\* lines 80-83: the destination exists, try the next name
NextName ==
    /\ im_pc = "probe"
    /\ path_exists(date_dir, destination_path)
    /\ destination_path' = new_filename(basename(source_path.path), counter)
    /\ counter' = counter + 1
    /\ UNCHANGED <<im_pc, source_path, date_dir, dir_before, extraction,
                    overwritten, imported>>

\* lines 86-91: the loop is left, shutil.copy2 and the return; a source
\* that cannot be read makes copy2 raise and the call return None
Copy ==
    /\ im_pc = "probe"
    /\ ~path_exists(date_dir, destination_path)
    /\ im_pc' = "done"
    /\ IF source_path.readable
       THEN /\ date_dir' = date_dir \cup {destination_path}
            /\ overwritten' = (destination_path \in date_dir)
            /\ imported' = Str(destination_path)
       ELSE /\ imported' = None
            /\ UNCHANGED <<date_dir, overwritten>>
    /\ UNCHANGED <<source_path, dir_before, destination_path, counter, extraction>>

\* the caller has the result; the next import can start
ImportReturn ==
    /\ im_pc = "done"
    /\ im_pc' = "idle"
    /\ source_path' = NoSource
    /\ dir_before' = {}
    /\ destination_path' = ""
    /\ counter' = 0
    /\ extraction' = "none"
    /\ overwritten' = FALSE
    /\ imported' = None
    /\ UNCHANGED date_dir

ImportInit ==
    /\ config = DefaultConfig
    /\ Idle
    /\ ImportIdle
    /\ date_dir \in SUBSET DirNames
    /\ StoreIdle
    /\ AppIdle
    /\ SettingsIdle
ImportNext ==
    \/ \E f \in ImportSources, parent_widget \in BOOLEAN,
          returned \in ExtractResults, user_confirmed \in BOOLEAN :
          import_file(f, parent_widget, returned, user_confirmed)
            /\ UNCHANGED not_import
    \/ NextName /\ UNCHANGED not_import
    \/ Copy /\ UNCHANGED not_import
    \/ ImportReturn /\ UNCHANGED not_import
\* the loop and the copy run to their end: import_file is sequential code
ImportSpec ==
    ImportInit /\ [][ImportNext]_vars
      /\ WF_vars(NextName /\ UNCHANGED not_import)
      /\ WF_vars(Copy /\ UNCHANGED not_import)

(***************************************************************************)
(* DatabaseManager (src/database.py; LedgerApp in src/ledger.py carries    *)
(* the same methods).  Every method opens its own connection, so the       *)
(* PRAGMA foreign_keys of init_database is not in force in any of them:    *)
(* the FOREIGN KEY clause of the items table is not enforced.  The UNIQUE  *)
(* and NOT NULL constraints are.                                           *)
(***************************************************************************)
\* most rows the items table ever receives
MaxItems == 2

AccountNames == {"a", "b", "c"}
Descriptions == {"milk"}
\* float(price_str): a number, or nan; SQLite binds nan as NULL
NaN == [t |-> "float", s |-> "nan", n |-> 0, l |-> <<>>]
Prices == {Float(5), Float(7), NaN}
Row(id, account, description, price) ==
    [id |-> id, account |-> account, description |-> description, price |-> price]
Called(store, raised) == [store |-> store, raised |-> raised]

\* INSERT INTO accounts: sqlite3.IntegrityError on a name that is there
\* already is caught and nothing is written
save_account(store, name) ==
    IF name \in store.accounts THEN Called(store, FALSE)
    ELSE Called([store EXCEPT !.accounts = @ \cup {name}], FALSE)

\* DELETE FROM items WHERE account = ?; DELETE FROM accounts WHERE name = ?
remove_account_keep_items(store, name) ==
    Called([store EXCEPT !.accounts = @ \ {name}], FALSE)
remove_account(store, name) ==
    Called([store EXCEPT !.items = {i \in @ : i.account # name},
                         !.accounts = @ \ {name}], FALSE)

\* UPDATE accounts SET name = ?; UPDATE items SET account = ?.  The first
\* statement raises sqlite3.IntegrityError (UNIQUE) when the new name is
\* another existing account; nothing is committed then.
update_account_name_unchecked(store, old_name, new_name) ==
    Called([store EXCEPT
              !.accounts = IF old_name \in @ THEN (@ \ {old_name}) \cup {new_name} ELSE @,
              !.items = {IF i.account = old_name
                         THEN [i EXCEPT !.account = new_name] ELSE i : i \in @}],
           FALSE)
update_account_name(store, old_name, new_name) ==
    IF old_name \in store.accounts /\ new_name \in store.accounts /\ new_name # old_name
    THEN Called(store, TRUE)
    ELSE Called([store EXCEPT
                   !.accounts = IF old_name \in @ THEN (@ \ {old_name}) \cup {new_name}
                                ELSE @,
                   !.items = {IF i.account = old_name
                              THEN [i EXCEPT !.account = new_name] ELSE i : i \in @}],
                FALSE)

\* INSERT INTO items; cursor.lastrowid is the new AUTOINCREMENT id.  A nan
\* price is NULL in a NOT NULL column: sqlite3.IntegrityError
lastrowid(store) == store.seq + 1
save_item(store, account, description, price) ==
    IF price = NaN THEN Called(store, TRUE)
    ELSE Called([store EXCEPT
                   !.items = @ \cup {Row(lastrowid(store), account, description, price)},
                   !.seq = lastrowid(store)], FALSE)

\* DELETE FROM items WHERE id = ?
remove_item(store, item_id) ==
    Called([store EXCEPT !.items = {i \in @ : i.id # item_id}], FALSE)

\* UPDATE items SET description = ?, price = ?, account = ? WHERE id = ?
update_item(store, item_id, description, price, account) ==
    IF price = NaN /\ \E i \in store.items : i.id = item_id
    THEN Called(store, TRUE)
    ELSE Called([store EXCEPT
                   !.items = {IF i.id = item_id
                              THEN Row(item_id, account, description, price)
                              ELSE i : i \in @}], FALSE)

\* SELECT name FROM accounts ORDER BY name
RECURSIVE Sorted(_)
Sorted(names) ==
    IF names = {} THEN <<>>
    ELSE LET first == CHOOSE x \in names : \A y \in names : x = y \/ x = "a" \/ (x = "b" /\ y = "c")
         IN <<first>> \o Sorted(names \ {first})
load_accounts(store) == Sorted(store.accounts)
\* SELECT id, account, description, price FROM items ORDER BY id
RECURSIVE ById(_)
ById(rows) ==
    IF rows = {} THEN <<>>
    ELSE LET first == CHOOSE r \in rows : \A q \in rows : r.id <= q.id
         IN <<first>> \o ById(rows \ {first})
load_items(store) == ById(store.items)

\* a call of a DatabaseManager method on the database
DbCall(op, name, new_name, called) ==
    /\ db' = called.store
    /\ db_call' = [op |-> op, name |-> name, new_name |-> new_name,
                   before |-> db, raised |-> called.raised]
    /\ UNCHANGED not_store
Call_save_account(name) == DbCall("save_account", name, "", save_account(db, name))
Call_remove_account(name) ==
    DbCall("remove_account", name, "", remove_account(db, name))
Call_update_account_name(old_name, new_name) ==
    DbCall("update_account_name", old_name, new_name,
           update_account_name(db, old_name, new_name))
Call_save_item(account, description, price) ==
    /\ db.seq < MaxItems
    /\ DbCall("save_item", account, "", save_item(db, account, description, price))
Call_remove_item(item_id) ==
    DbCall("remove_item", "", "", remove_item(db, item_id))

StoreInit ==
    /\ config = DefaultConfig
    /\ Idle
    /\ ImportIdle
    /\ date_dir = {}
    /\ StoreIdle
    /\ AppIdle
    /\ SettingsIdle
StoreNext ==
    \/ \E name \in AccountNames : Call_save_account(name)
    \/ \E name \in AccountNames : Call_remove_account(name)
    \/ \E old_name \in AccountNames, new_name \in AccountNames :
          Call_update_account_name(old_name, new_name)
    \/ \E account \in AccountNames, description \in Descriptions, price \in Prices :
          Call_save_item(account, description, price)
    \/ \E item_id \in 1..MaxItems : Call_remove_item(item_id)
StoreSpec == StoreInit /\ [][StoreNext]_vars

(***************************************************************************)
(* LedgerApp (src/ledger.py): the handlers of the account panel and of the *)
(* item panel.  self.accounts and self.items are the lists in memory, the  *)
(* listbox and the combo box show sorted(self.accounts) as of the last     *)
(* refresh.  An exception that leaves a handler is reported by Tk and the  *)
(* application goes on.                                                    *)
(***************************************************************************)
\* the elements of a list
Range(seq) == {seq[i] : i \in 1..Len(seq)}
LedgerNames == {"a", "b"}
Entered == LedgerNames \cup {""}
PriceStrs == {"5", "7", "nan", "abc"}
ValueError == [t |-> "ValueError", s |-> "", n |-> 0, l |-> <<>>]
\* float(price_str)
float(price_str) ==
    CASE price_str = "5" -> Float(5)
      [] price_str = "7" -> Float(7)
      [] price_str = "nan" -> NaN
      [] OTHER -> ValueError

index(list, x) == CHOOSE k \in 1..Len(list) : list[k] = x /\ \A j \in 1..(k - 1) : list[j] # x
\* list.remove(x): the first occurrence
remove(list, x) == SubSeq(list, 1, index(list, x) - 1) \o SubSeq(list, index(list, x) + 1, Len(list))
SortedList(list) == Sorted(Range(list))
not_renamed(list, old_name, new_name) == list
renamed(list, old_name, new_name) ==
    [k \in 1..Len(list) |->
        IF list[k].account = old_name THEN [list[k] EXCEPT !.account = new_name] ELSE list[k]]
of_account_removed(list, name) == SelectSeq(list, LAMBDA i : i.account # name)
of_id_removed(list, item_id) == SelectSeq(list, LAMBDA i : i.id # item_id)
edited(list, item_id, account, description, price) ==
    [k \in 1..Len(list) |->
        IF list[k].id = item_id THEN Row(item_id, account, description, price) ELSE list[k]]

UiOp(op, row, shown, acted) == [op |-> op, row |-> row, shown |-> shown, acted |-> acted]
\* an early return of a handler: a warning at most
Returned ==
    /\ ui_op' = NoUiOp
    /\ UNCHANGED << db, accounts, items, account_listbox, selected_account_var, handler_raised >>
\* the database call of a handler and, unless it raised, refresh_displays
Stored(called, accounts_now) ==
    /\ db' = called.store
    /\ handler_raised' = (handler_raised \/ called.raised)
    /\ account_listbox' = IF called.raised THEN account_listbox ELSE SortedList(accounts_now)

add_account(name) ==
    IF name = "" \/ name \in Range(accounts) THEN Returned
    ELSE /\ accounts' = Append(accounts, name)
         /\ Stored(save_account(db, name), accounts')
         /\ ui_op' = NoUiOp
         /\ UNCHANGED << items, selected_account_var >>

\* row: curselection() of the listbox, counted from 0
rename_account(row, new_name) ==
    LET old_name == accounts[row + 1]
    IN IF new_name = "" \/ new_name = old_name \/ new_name \in Range(accounts)
       THEN Returned
       ELSE /\ accounts' = [accounts EXCEPT ![index(accounts, old_name)] = new_name]
            /\ items' = renamed(items, old_name, new_name)
            /\ Stored(update_account_name(db, old_name, new_name), accounts')
            /\ ui_op' = UiOp("rename_account", row, account_listbox[row + 1], old_name)
            /\ UNCHANGED selected_account_var

delete_account(row, confirmed) ==
    LET account_name == accounts[row + 1]
        has_items == \E k \in 1..Len(items) : items[k].account = account_name
    IN IF has_items /\ ~confirmed THEN Returned
       ELSE /\ accounts' = remove(accounts, account_name)
            /\ items' = of_account_removed(items, account_name)
            /\ Stored(remove_account(db, account_name), accounts')
            /\ ui_op' = UiOp("delete_account", row, account_listbox[row + 1], account_name)
            /\ UNCHANGED selected_account_var

\* the user picks a value of the read-only account combo box
select_account(name) ==
    /\ selected_account_var' = name
    /\ ui_op' = NoUiOp
    /\ UNCHANGED << db, accounts, items, account_listbox, handler_raised >>

add_item(description, price_str) ==
    LET account == selected_account_var
        price == float(price_str)
        called == save_item(db, account, description, price)
    IN IF account = "" \/ description = "" \/ price = ValueError THEN Returned
       ELSE /\ db' = called.store
            /\ handler_raised' = (handler_raised \/ called.raised)
            /\ items' = IF called.raised THEN items
                         ELSE Append(items, Row(lastrowid(db), account, description, price))
            /\ ui_op' = NoUiOp
            /\ UNCHANGED << accounts, account_listbox, selected_account_var >>

\* edit_item with its dialog, which holds the grab until it is closed
save_changes(item_id, new_account, new_description, new_price_str) ==
    LET new_price == float(new_price_str)
        called == update_item(db, item_id, new_description, new_price, new_account)
    IN IF new_account = "" \/ new_description = "" \/ new_price = ValueError
       THEN Returned
       ELSE /\ items' = edited(items, item_id, new_account, new_description, new_price)
            /\ db' = called.store
            /\ handler_raised' = (handler_raised \/ called.raised)
            /\ ui_op' = NoUiOp
            /\ UNCHANGED << accounts, account_listbox, selected_account_var >>

delete_item(item_id, confirmed) ==
    IF ~confirmed THEN Returned
    ELSE /\ items' = of_id_removed(items, item_id)
         /\ db' = remove_item(db, item_id).store
         /\ ui_op' = NoUiOp
         /\ UNCHANGED << accounts, account_listbox, selected_account_var, handler_raised >>

\* LedgerApp.__init__: the lists are loaded from the database file
StoredBefore == {EmptyStore, [EmptyStore EXCEPT !.accounts = {"b"}]}
LedgerInit ==
    /\ config = DefaultConfig
    /\ Idle
    /\ ImportIdle
    /\ date_dir = {}
    /\ db \in StoredBefore
    /\ db_call = NoCall
    /\ accounts = load_accounts(db)
    /\ items = load_items(db)
    /\ account_listbox = SortedList(accounts)
    /\ selected_account_var = ""
    /\ ui_op = NoUiOp
    /\ handler_raised = FALSE
    /\ SettingsIdle
Rows == 0..(Len(account_listbox) - 1)
ItemIds == {items[k].id : k \in 1..Len(items)}
account_of(item_id) == (CHOOSE i \in Range(items) : i.id = item_id).account
LedgerNext ==
    \/ \E name \in Entered : add_account(name) /\ UNCHANGED not_ledger
    \/ \E row \in Rows, new_name \in Entered :
          rename_account(row, new_name) /\ UNCHANGED not_ledger
    \/ \E row \in Rows, confirmed \in BOOLEAN :
          delete_account(row, confirmed) /\ UNCHANGED not_ledger
    \/ \E name \in Range(account_listbox) : select_account(name) /\ UNCHANGED not_ledger
    \/ \E description \in Descriptions \cup {""}, price_str \in PriceStrs :
          /\ db.seq < MaxItems
          /\ add_item(description, price_str)
          /\ UNCHANGED not_ledger
    \/ \E item_id \in ItemIds, description \in Descriptions \cup {""}, price_str \in PriceStrs :
          \E new_account \in Range(accounts) \cup {account_of(item_id)} :
             save_changes(item_id, new_account, description, price_str)
             /\ UNCHANGED not_ledger
    \/ \E item_id \in ItemIds, confirmed \in BOOLEAN :
          delete_item(item_id, confirmed) /\ UNCHANGED not_ledger
LedgerSpec == LedgerInit /\ [][LedgerNext]_vars

(***************************************************************************)
(* Config (src/config.py) with several objects over one config.json: the   *)
(* settings dialog, and every TextExtractor, which builds its own Config   *)
(* (src/text_extractor.py:18-20).  An object reads the file once, when it  *)
(* is built; each setter writes the object's whole dictionary.             *)
(***************************************************************************)
ConfigFiles == {NoConfigFile} \cup {[exists |-> TRUE, config |-> c] : c \in Configs}
NewKeys == ApiKeys \cup {"sk-new"}
Models == {"gpt-4o-mini", "gpt-4o"}

\* Config.load_config
load_config(f) == IF f.exists THEN f.config ELSE DefaultConfig
\* self.config[key] = value
with_item(cfg, key, value) ==
    [k \in DOMAIN cfg \cup {key} |-> IF k = key THEN value ELSE cfg[k]]
\* Config.save_config: json.dump(self.config) over the file
save_config(cfg) == [exists |-> TRUE, config |-> cfg]

Config_init(i) ==
    /\ ~instances[i].created
    /\ instances' = [instances EXCEPT ![i] =
                        [created |-> TRUE, config |-> load_config(config_file)]]
    /\ settings_call' = [op |-> "__init__", inst |-> i]
    /\ UNCHANGED << config_file, key_set, authorization >>

Config_set_openai_api_key(i, api_key) ==
    /\ instances[i].created
    /\ instances' = [instances EXCEPT ![i].config =
                        with_item(@, "openai_api_key", api_key)]
    /\ config_file' = save_config(instances'[i].config)
    /\ key_set' = [has |-> TRUE, text |-> api_key, then_saved |-> {}]
    /\ settings_call' = [op |-> "set_openai_api_key", inst |-> i]
    /\ UNCHANGED authorization

Config_set_openai_model(i, model) ==
    /\ instances[i].created
    /\ instances' = [instances EXCEPT ![i].config =
                        with_item(@, "openai_model", model)]
    /\ config_file' = save_config(instances'[i].config)
    /\ key_set' = IF key_set.has THEN [key_set EXCEPT !.then_saved = @ \cup {i}]
                   ELSE key_set
    /\ settings_call' = [op |-> "set_openai_model", inst |-> i]
    /\ UNCHANGED authorization

\* an extraction through the TextExtractor that owns Config object i
Config_extract(i) ==
    /\ instances[i].created
    /\ authorization' = _headers(instances[i].config)
    /\ settings_call' = [op |-> "extract_text", inst |-> i]
    /\ UNCHANGED << config_file, instances, key_set >>

SettingsInit ==
    /\ config = DefaultConfig
    /\ Idle
    /\ ImportIdle
    /\ date_dir = {}
    /\ StoreIdle
    /\ AppIdle
    /\ config_file \in ConfigFiles
    /\ instances = [i \in Instances |-> NotCreated]
    /\ key_set = NoKeySet
    /\ settings_call = NoSettingsCall
    /\ authorization = Raise("", <<>>)
SettingsNext ==
    \/ \E i \in Instances : Config_init(i) /\ UNCHANGED not_settings
    \/ \E i \in Instances, api_key \in NewKeys :
          Config_set_openai_api_key(i, api_key) /\ UNCHANGED not_settings
    \/ \E i \in Instances, model \in Models :
          Config_set_openai_model(i, model) /\ UNCHANGED not_settings
    \/ \E i \in Instances : Config_extract(i) /\ UNCHANGED not_settings
SettingsSpec == SettingsInit /\ [][SettingsNext]_vars

(***************************************************************************)
(* Properties                                                              *)
(***************************************************************************)
\* the PDF and image extensions of the documented dispatch
DocExts == {".pdf", ".jpg", ".jpeg", ".png", ".gif", ".bmp", ".tiff"}
InCall == pc # "idle"
Ext == splitext_lower(file.path)
KeyMissing ==
    "openai_api_key" \notin DOMAIN config \/ config["openai_api_key"] = ""
NonSuccess(status) == status \notin 200..299
UploadFailed ==
    \/ upload_resp.kind = "exception"
    \/ upload_resp.kind = "http" /\ NonSuccess(upload_resp.status)
GenFailed ==
    \/ gen_resp.kind = "exception"
    \/ gen_resp.kind = "http" /\ NonSuccess(gen_resp.status)
\* the Bill a successful payload holds
ReturnedBill == loads(result.payload).val

\* C1: a call on a path that does not exist returns (False, "File not
\* found") at once and issues neither the upload nor the generation request.
C1_FileNotFoundNoNetwork ==
    (InCall /\ ~file.exists) =>
        /\ pc = "done"
        /\ ~result.success
        /\ result.payload = <<Msg("File not found")>>
        /\ uploads = 0
        /\ generations = 0
        /\ request = NoRequest
C1_Witness ==
    /\ pc = "done"
    /\ file.path = "/in/bill.pdf"
    /\ ~file.exists
    /\ ~KeyMissing

\* C2: a call on an existing file whose lower-cased extension is neither
\* .txt nor a PDF/image extension never returns success.
C2_UnsupportedTypeNeverSucceeds ==
    (pc = "done" /\ file.exists /\ Ext \notin DocExts \cup {".txt"}) =>
        ~result.success

\* C3: a remote call (upload or generation) is issued only for a file whose
\* lower-cased extension is a PDF/image extension.
C3_RemoteCallOnlyForDocuments ==
    (InCall /\ (uploads > 0 \/ generations > 0)) => Ext \in DocExts

\* C4: a call issues at most one upload and at most one generation request,
\* and the generation request only after its upload answered with a success
\* status and a file id, which is the id the generation request refers to.
C4_OneUploadThenOneGeneration ==
    /\ uploads \in {0, 1}
    /\ generations \in {0, 1}
    /\ generations = 1 =>
          /\ uploads = 1
          /\ upload_resp.kind = "http"
          /\ ~NonSuccess(upload_resp.status)
          /\ upload_resp.body.hasid
    /\ pc = "generate" =>
          /\ request.url = "/responses"
          /\ request.body.input_file = upload_resp.body.id
    /\ pc = "upload" => (uploads = 1 /\ generations = 0)
C4_Witness ==
    /\ pc = "done"
    /\ uploads = 1
    /\ generations = 1
    /\ result.success

\* C5: no retry.  After an upload that failed (exception or non-success
\* status) the call has ended in a failure with one upload and no generation
\* request issued; after a generation request that failed it has ended in a
\* failure with exactly one request of each kind issued.
C5_NoRetryAfterFailure ==
    /\ UploadFailed =>
          /\ pc = "done"
          /\ ~result.success
          /\ uploads = 1
          /\ generations = 0
          /\ request = NoRequest
    /\ GenFailed =>
          /\ pc = "done"
          /\ ~result.success
          /\ uploads = 1
          /\ generations = 1
          /\ request = NoRequest
C5_Witness ==
    /\ pc = "done"
    /\ upload_resp.kind = "http"
    /\ upload_resp.status = 429
    /\ uploads = 1

\* C6: with no API key configured (the key missing or empty), a call on an
\* existing PDF/image file ends at once in a failure, with no upload and no
\* generation request sent; when the file can be opened the failure is the
\* missing-credential one.
C6_CredentialMissing ==
    (InCall /\ file.exists /\ Ext \in DocExts /\ KeyMissing) =>
        /\ pc = "done"
        /\ ~result.success
        /\ uploads = 0
        /\ generations = 0
        /\ request = NoRequest
        /\ file.readable =>
              /\ result.payload = << Msg("Error extracting text: "),
                                     Msg("OpenAI API key not configured") >>
              /\ log.exc_type = "RuntimeError"
C6_Witness ==
    /\ pc = "done"
    /\ file.exists
    /\ file.readable
    /\ Ext = ".png"
    /\ "openai_api_key" \notin DOMAIN config

\* C7: no exception leaves extract_text: the call never ends by raising,
\* and when it has ended its result is a (success, payload) pair whose
\* payload is a text.
C7_NeverPropagates ==
    /\ pc \in {"idle", "upload", "generate", "done"}
    /\ pc = "done" =>
          /\ DOMAIN result = {"success", "payload"}
          /\ result.success \in BOOLEAN
          /\ \A i \in 1..Len(result.payload) :
                result.payload[i].c \in {"punct", "pair", "msg", "scalar"}
          /\ Len(result.payload) > 0
C7_Witness ==
    /\ pc = "done"
    /\ ~result.success
    /\ log.exc_type = "AttributeError"
    /\ json_text.has

\* the text from its first { to its last }, when it has both in that order
Trimmable(t) ==
    \E i, j \in 1..Len(t) :
        /\ i < j
        /\ t[i] = LB /\ \A h \in 1..(i - 1) : t[h] # LB
        /\ t[j] = RB /\ \A h \in (j + 1)..Len(t) : t[h] # RB
Trimmed(t) ==
    LET i == CHOOSE h \in 1..Len(t) : t[h] = LB /\ \A g \in 1..(h - 1) : t[g] # LB
        j == CHOOSE h \in 1..Len(t) : t[h] = RB /\ \A g \in (h + 1)..Len(t) : t[g] # RB
    IN SubSeq(t, i, j)
ParsesDirectly(t) == loads(t).ok
ParsesTrimmed(t) == Trimmable(t) /\ loads(Trimmed(t)).ok
Normalized == pc = "done" /\ json_text.has

\* C8 as claimed: normalization succeeds exactly when the output text parses
\* as JSON directly or, failing that, when its first-{-to-last-} substring
\* parses; otherwise the result is a malformed-response failure.
C8_SucceedsIffParses ==
    Normalized =>
        /\ result.success <=>
              (ParsesDirectly(json_text.text) \/ ParsesTrimmed(json_text.text))
        /\ ~(ParsesDirectly(json_text.text) \/ ParsesTrimmed(json_text.text)) =>
              (~result.success /\ log.exc_type = "JSONDecodeError")

\* C8 amended: normalization succeeds exactly when the output text parses
\* directly as a JSON object or, the direct parse failing, when its
\* first-{-to-last-} substring parses; a text that parses directly as JSON
\* that is not an object is a failure, and when neither parse succeeds the
\* result is a malformed-response failure (JSONDecodeError), never a success.
C8_SucceedsIffParsesAsObject ==
    Normalized =>
        LET t == json_text.text IN
        /\ result.success <=>
              \/ ParsesDirectly(t) /\ loads(t).val.t = "dict"
              \/ ~ParsesDirectly(t) /\ ParsesTrimmed(t)
        /\ (ParsesDirectly(t) /\ loads(t).val.t # "dict") =>
              (~result.success /\ log.exc_type = "AttributeError")
        /\ ~(ParsesDirectly(t) \/ ParsesTrimmed(t)) =>
              (~result.success /\ log.exc_type = "JSONDecodeError")
C8_Witness ==
    /\ Normalized
    /\ json_text.text = <<NOISE, LB, MemberI, RB, NOISE>>
    /\ result.success

\* C9: on the document path the returned Bill is the parsed object with
\* source_filename set to the base name of the input file if and only if
\* the parsed object has no such key; a source_filename that is present and
\* every other parsed field are returned unchanged, and nothing else is added.
C9_InjectOnlyWhenMissing ==
    (pc = "done" /\ parsed.has /\ parsed.obj.t = "dict") =>
        /\ result.success
        /\ loads(result.payload).ok
        /\ Keys(ReturnedBill) = Keys(parsed.obj) \cup {"source_filename"}
        /\ \A key \in Keys(parsed.obj) : Get(ReturnedBill, key) = Get(parsed.obj, key)
        /\ ~HasKey(parsed.obj, "source_filename") =>
              Get(ReturnedBill, "source_filename") = Str(basename(file.path))
C9_Witness ==
    /\ pc = "done"
    /\ result.success
    /\ file.path = "/in/receipt.jpg"
    /\ parsed.has
    /\ Keys(parsed.obj) = {"bill_number", "items"}
    /\ Get(ReturnedBill, "source_filename") = Str("receipt.jpg")

\* C10: every successful Bill, on the .txt path as on the document path,
\* carries as source_filename the base name of the input file whenever the
\* model did not supply one.
C10_SourceFilenameIsBaseName ==
    (pc = "done" /\ result.success) =>
        /\ HasKey(ReturnedBill, "source_filename")
        /\ (Ext = ".txt" \/ ~HasKey(parsed.obj, "source_filename")) =>
              Get(ReturnedBill, "source_filename") = Str(basename(file.path))

\* the text of a file as Python reads it: UTF-8, or Latin-1 when the bytes
\* are not UTF-8
Decoded(f) ==
    IF decode_utf8(f.bytes).ok THEN decode_utf8(f.bytes).chars
    ELSE decode_latin1(f.bytes)
\* cs without its leading and trailing whitespace
Stripped(cs) ==
    LET nw == {i \in 1..Len(cs) : cs[i] \notin Whitespace} IN
    IF nw = {} THEN <<>>
    ELSE LET lo == CHOOSE i \in nw : \A j \in nw : i <= j
             hi == CHOOSE i \in nw : \A j \in nw : i >= j IN
         [i \in 1..(hi - lo + 1) |-> cs[lo + i - 1]]
\* the first n characters of cs
FirstChars(cs, n) == [i \in 1..(IF Len(cs) < n THEN Len(cs) ELSE n) |-> cs[i]]
TxtCall == pc = "done" /\ file.exists /\ file.readable /\ Ext = ".txt"
\* the items of the returned Bill
ReturnedItems == Get(ReturnedBill, "items").l

\* C11: a call on a readable .txt file with category list C returns success
\* with a Bill whose bill_number is null and whose items hold exactly one
\* LineItem: description the stripped file content cut to its first 2000
\* characters, price 0.0, quantity and unit_price null, category the first
\* element of C, or null when C is empty or was not supplied.
C11_TxtWrappedAsOneItem ==
    TxtCall =>
        /\ result.success
        /\ loads(result.payload).ok
        /\ Get(ReturnedBill, "bill_number") = None
        /\ Get(ReturnedBill, "items").t = "list"
        /\ Len(ReturnedItems) = 1
        /\ Keys(ReturnedItems[1]) =
              {"description", "quantity", "unit_price", "price", "category"}
        /\ Get(ReturnedItems[1], "description") =
              Chars(FirstChars(Stripped(Decoded(file)), 2000))
        /\ Get(ReturnedItems[1], "price") = Float(0)
        /\ Get(ReturnedItems[1], "quantity") = None
        /\ Get(ReturnedItems[1], "unit_price") = None
        /\ Get(ReturnedItems[1], "category") =
              (IF categories = <<>> THEN None ELSE Str(categories[1]))
C11_Witness ==
    /\ TxtCall
    /\ file.bytes = LongContent
    /\ categories = <<"food", "other">>
    /\ result.success
    /\ Len(Get(ReturnedItems[1], "description").l) = 2000

\* a success result that holds a Bill with a list of items
BillWithItems ==
    /\ pc = "done"
    /\ result.success
    /\ HasKey(ReturnedBill, "items")
    /\ Get(ReturnedBill, "items").t = "list"
NonEmptyDescription(item) ==
    /\ HasKey(item, "description")
    /\ Get(item, "description").t = "str"
    /\ Get(item, "description") # Str("")
NonNegativePrice(item) ==
    /\ HasKey(item, "price")
    /\ Get(item, "price").t = "float"
    /\ Get(item, "price").n >= 0

\* C12: every LineItem of every Bill returned with success has a non-empty
\* description and a numeric, non-negative price, on the .txt path for every
\* file content and on the document path for every accepted model output.
C12_ItemsHaveDescriptionAndPrice ==
    BillWithItems =>
        \A i \in 1..Len(ReturnedItems) :
            /\ ReturnedItems[i].t = "dict"
            /\ NonEmptyDescription(ReturnedItems[i])
            /\ NonNegativePrice(ReturnedItems[i])

\* C13: every Bill returned with success has an items field that is a
\* (possibly empty) sequence, never null and never missing, whatever JSON
\* text the remote service returned.
C13_ItemsIsAlwaysASequence ==
    (pc = "done" /\ result.success) =>
        /\ loads(result.payload).ok
        /\ ReturnedBill.t = "dict"
        /\ HasKey(ReturnedBill, "items")
        /\ Get(ReturnedBill, "items").t = "list"

\* C14: when a non-empty category list C is supplied, every category of
\* every LineItem of a Bill returned with success is null or a member of C.
C14_CategoryFromTheList ==
    (BillWithItems /\ categories # <<>>) =>
        \A i \in 1..Len(ReturnedItems) :
            (ReturnedItems[i].t = "dict" /\ HasKey(ReturnedItems[i], "category")) =>
                \/ Get(ReturnedItems[i], "category") = None
                \/ \E j \in 1..Len(categories) :
                       Get(ReturnedItems[i], "category") = Str(categories[j])

\* the items of the object parsed from the remote output
UpstreamItems ==
    IF parsed.has /\ parsed.obj.t = "dict" /\ HasKey(parsed.obj, "items")
         /\ Get(parsed.obj, "items").t = "list"
    THEN Get(parsed.obj, "items").l ELSE <<>>
\* quantity and unit_price are numbers and there is no price
PriceToCompute(item) ==
    /\ item.t = "dict"
    /\ HasKey(item, "quantity") /\ Get(item, "quantity").t = "float"
    /\ HasKey(item, "unit_price") /\ Get(item, "unit_price").t = "float"
    /\ ~HasKey(item, "price")

\* C15: a LineItem that comes from upstream with quantity and unit_price
\* and without price is returned with price = quantity * unit_price; no
\* Bill returned with success holds such an item without a price.
C15_PriceComputedWhenAbsent ==
    BillWithItems =>
        /\ \A i \in 1..Len(ReturnedItems) : ~PriceToCompute(ReturnedItems[i])
        /\ \A i \in 1..Len(UpstreamItems) :
              PriceToCompute(UpstreamItems[i]) =>
                /\ i <= Len(ReturnedItems)
                /\ HasKey(ReturnedItems[i], "price")
                /\ Get(ReturnedItems[i], "price") =
                      Float(Get(UpstreamItems[i], "quantity").n
                              * Get(UpstreamItems[i], "unit_price").n)

\* the failure result of a call stopped by a RuntimeError with this message
RemoteFailure(what, status, body) ==
    /\ pc = "done"
    /\ ~result.success
    /\ result.payload =
          << Msg("Error extracting text: "), Msg(what), Msg(ToString(status)),
             Msg(" "), Msg(body) >>
    /\ log.level = "error"
    /\ log.exc_type = "RuntimeError"
UploadAnswered == InCall /\ upload_resp.kind = "http"
GenAnswered == InCall /\ gen_resp.kind = "http"

StatusBlanked(payload, status) ==
    [i \in 1..Len(payload) |->
        IF payload[i] = Msg(ToString(status)) THEN Msg("<status>") ELSE payload[i]]
\* the generic message of a failed remote call, the status code blanked
GenericRemoteMessage(what, body) ==
    << Msg("Error extracting text: "), Msg(what), Msg("<status>"), Msg(" "),
       Msg(body) >>
CredentialOrRateLimit == {401, 429}

\* C17: when the upload or the generation request is answered with HTTP 401
\* or 429 the call fails with a message of its own (invalid credential, rate
\* limiting), different from the generic remote-error message that only
\* carries the status code and the body.
C17_DistinctMessagesFor401And429 ==
    /\ (UploadAnswered /\ upload_resp.status \in CredentialOrRateLimit) =>
          /\ pc = "done"
          /\ ~result.success
          /\ StatusBlanked(result.payload, upload_resp.status) #
                GenericRemoteMessage("File upload failed: ", upload_resp.body.text)
    /\ (GenAnswered /\ gen_resp.status \in CredentialOrRateLimit) =>
          /\ pc = "done"
          /\ ~result.success
          /\ StatusBlanked(result.payload, gen_resp.status) #
                GenericRemoteMessage("Responses API error: ", gen_resp.text)

\* C18: no failure message returned by extract_text embeds more than 2000
\* characters of text received from the remote service, be it an HTTP error
\* body or an unexpected response document.
C18_RemoteTextCapped ==
    (pc = "done" /\ ~result.success) =>
        /\ \A i \in 1..Len(result.payload) :
              /\ (UploadAnswered /\ result.payload[i] = Msg(upload_resp.body.text))
                    => BodyLen(upload_resp.body.text) <= 2000
              /\ (GenAnswered /\ result.payload[i] = Msg(gen_resp.text))
                    => BodyLen(gen_resp.text) <= 2000
        /\ Cardinality({i \in 1..Len(result.payload) : result.payload[i].c # "msg"})
              <= 2000

\* the schema of the generation request on the wire
SentSchema == request.body.format.schema
Property(schema, name) ==
    (CHOOSE p \in {schema.properties[i] : i \in 1..Len(schema.properties)} :
        p.name = name).prop
SentItemSchema == Property(SentSchema, "items").items
PropertyNames(schema) == {schema.properties[i].name : i \in 1..Len(schema.properties)}

\* JSON-schema validation of a value against a property: the type of the
\* value is listed and, where there is an enum, the value is in it; anyOf
\* accepts what one of its branches accepts
JsonType(v) ==
    CASE v.t = "NoneType" -> "null"
      [] v.t = "str" -> "string"
      [] v.t = "float" -> "number"
      [] v.t = "list" -> "array"
      [] v.t = "dict" -> "object"
AcceptsSimple(prop, v) ==
    /\ "type" \in DOMAIN prop => JsonType(v) \in Range(prop.type)
    /\ "enum" \in DOMAIN prop => \E j \in 1..Len(prop.enum) : v = Str(prop.enum[j])
Accepts(prop, v) ==
    IF "anyOf" \in DOMAIN prop
    THEN \E k \in 1..Len(prop.anyOf) : AcceptsSimple(prop.anyOf[k], v)
    ELSE AcceptsSimple(prop, v)
\* a closed object schema whose required list is exactly these keys
StrictObject(schema, keys) ==
    /\ schema.type = "object"
    /\ schema.additionalProperties = FALSE
    /\ PropertyNames(schema) = keys
    /\ Len(schema.properties) = Cardinality(keys)
    /\ Range(schema.required) = keys
    /\ Len(schema.required) = Cardinality(keys)

\* C19: for every category list the schema sent is strict: the Bill and the
\* LineItem objects have additionalProperties = false and a required list
\* that is exactly the set of their declared property keys; the optional
\* fields (bill_number, quantity, unit_price, category) are required too and
\* are optional only in that they accept null.
C19_SchemaIsStrict ==
    pc = "generate" =>
        /\ request.body.format.type = "json_schema"
        /\ request.body.format.strict = TRUE
        /\ StrictObject(SentSchema, {"bill_number", "items", "source_filename"})
        /\ StrictObject(SentItemSchema,
              {"description", "quantity", "unit_price", "price", "category"})
        /\ Accepts(Property(SentSchema, "bill_number"), None)
        /\ \A name \in {"quantity", "unit_price", "category"} :
              Accepts(Property(SentItemSchema, name), None)
        /\ ~Accepts(Property(SentSchema, "source_filename"), None)
        /\ ~Accepts(Property(SentSchema, "items"), None)
        /\ \A name \in {"description", "price"} :
              ~Accepts(Property(SentItemSchema, name), None)
C19_Witness ==
    /\ pc = "generate"
    /\ categories = <<>>
    /\ request.url = "/responses"

\* the values a category is probed with
ProbeValues ==
    { None, Str("food"), Str("other"), Str("toys"), Str(""), Float(1),
      List(<<>>), Dict(<<>>) }
\* enum lists of a property, its anyOf branches included
Enums(prop) ==
    (IF "enum" \in DOMAIN prop THEN {prop.enum} ELSE {})
      \cup (IF "anyOf" \in DOMAIN prop
            THEN {prop.anyOf[k].enum :
                    k \in {j \in 1..Len(prop.anyOf) : "enum" \in DOMAIN prop.anyOf[j]}}
            ELSE {})

\* C20: in the schema built for category list C the category field accepts
\* exactly null or a string of C when C is not empty, and null or any string
\* when C is empty; an enum is emitted only for a non-empty C and is C.
C20_CategoryFieldAcceptance ==
    pc = "generate" =>
        LET cp == Property(SentItemSchema, "category") IN
        /\ \A v \in ProbeValues :
              Accepts(cp, v) <=>
                \/ v = None
                \/ v.t = "str" /\ (categories = <<>> \/ v.s \in Range(categories))
        /\ Enums(cp) = (IF categories = <<>> THEN {} ELSE {categories})
C20_Witness ==
    /\ pc = "generate"
    /\ categories = <<"food", "other">>
    /\ Enums(Property(SentItemSchema, "category")) = {<<"food", "other">>}

\* the generation answered with a success status and a JSON document
GenAccepted ==
    /\ pc = "done"
    /\ gen_resp.kind = "http"
    /\ ~NonSuccess(gen_resp.status)
    /\ gen_resp.isjson
    /\ gen_resp.data.isdict

\* C21: from a successful generation response the JSON text is the
\* top-level output_text when it is present and not empty, otherwise
\* output[0].content[0].text; when neither is there the call returns the
\* failure "Unexpected API response format" and never a success.
C21_PayloadLocation ==
    GenAccepted =>
        LET top == gen_resp.data.output_text
            nested == gen_resp.data.nested IN
        /\ (top.has /\ top.text # <<>>) => json_text = Some(top.text)
        /\ (~(top.has /\ top.text # <<>>) /\ nested.has) =>
              json_text = Some(nested.text)
        /\ (~(top.has /\ top.text # <<>>) /\ ~nested.has) =>
              /\ json_text = Absent
              /\ ~result.success
              /\ Len(result.payload) >= 1
              /\ result.payload[1] = Msg("Unexpected API response format: ")
        /\ result.success =>
              /\ json_text.has
              /\ parsed.has
              /\ parsed.obj = parse_json_text(json_text.text).val
C21_Witness ==
    /\ GenAccepted
    /\ gen_resp.data.output_text = Some(<<LB, MemberS, RB>>)
    /\ gen_resp.data.nested = Some(<<LB, MemberI, RB>>)
    /\ result.success
    /\ ~HasKey(ReturnedBill, "items")

\* the prompt of the generation request on the wire
SentPrompt == request.body.input_text
CarriesCategories(prompt) == CategoriesJson(categories) \in Range(prompt)
HasPlaceholder(text) == CategoriesJson(DefaultCategories) \in Range(text)
\* text with every placeholder list replaced by the caller's list
Substituted(text) ==
    [i \in 1..Len(text) |->
        IF text[i] = CategoriesJson(DefaultCategories)
        THEN CategoriesJson(categories) ELSE text[i]]
BuiltInPrompt ==
    << Msg("You are an expert at reading bills/invoices/receipts"),
       Msg("ALLOWED CATEGORIES"), CategoriesJson(categories),
       Msg("OUTPUT FORMAT (JSON ONLY)"), Msg("RULES") >>
\* an upload answer that lets the call go on to the prompt
UploadAccepted ==
    /\ UploadAnswered
    /\ ~NonSuccess(upload_resp.status)
    /\ upload_resp.body.isjson
    /\ upload_resp.body.hasid

\* C22 as stated: building the prompt never fails and the prompt always
\* carries the caller's categories, whether the template is readable or not.
C22_PromptAlwaysCarriesCategories ==
    /\ UploadAccepted => generations = 1
    /\ pc = "generate" => CarriesCategories(SentPrompt)

\* C22 amended: building the prompt never fails; the prompt is the built-in
\* prompt with the caller's categories when the template cannot be read, and
\* otherwise the template with the placeholder list replaced by the caller's
\* categories; it carries the categories unless it is a readable template
\* that does not contain the placeholder list, which is sent unchanged.
C22_PromptCarriesCategoriesGivenPlaceholder ==
    /\ UploadAccepted => generations = 1
    /\ pc = "generate" =>
          /\ \/ SentPrompt = BuiltInPrompt
             \/ \E t \in Templates : t.has /\ SentPrompt = Substituted(t.text)
          /\ \/ CarriesCategories(SentPrompt)
             \/ \E t \in Templates :
                   t.has /\ ~HasPlaceholder(t.text) /\ SentPrompt = t.text
C22_Witness ==
    /\ pc = "generate"
    /\ categories = <<"food", "other">>
    /\ SentPrompt[1] = Msg("template head")
    /\ CarriesCategories(SentPrompt)
    /\ ~HasPlaceholder(SentPrompt)

\* an import that ended
Imported == im_pc = "done" /\ imported # None
\* the name import_file should pick: the file name, or the first free
\* <stem>_<k><extension>
FreeName(name) ==
    LET filename == basename(source_path.path) IN
    \/ name = filename /\ filename \notin dir_before
    \/ /\ filename \in dir_before
       /\ \E k \in 1..(Cardinality(dir_before) + 1) :
             /\ name = new_filename(filename, k)
             /\ name \notin dir_before
             /\ \A j \in 1..(k - 1) : new_filename(filename, j) \in dir_before

\* C23: when the text extraction of an extractable file does not succeed,
\* import_file still copies the file into the date directory and returns
\* the destination path, not None.
C23_ImportSurvivesExtractionFailure ==
    (im_pc = "done" /\ can_extract(source_path.path) /\ source_path.readable
       /\ extraction \in {"raised", "failed"}) =>
        /\ imported # None
        /\ imported.s \in date_dir
        /\ imported.s \notin dir_before

\* C25: import_file never overwrites a file of the date directory: the
\* destination did not exist before the copy, it is the file name or
\* <stem>_<k><extension> for the smallest k >= 1 that is free, and the
\* search for k comes to an end.
C25_NoOverwriteSmallestFreeName ==
    /\ [](/\ ~overwritten
          /\ Imported =>
                /\ FreeName(imported.s)
                /\ date_dir = dir_before \cup {imported.s})
    /\ (im_pc = "probe" ~> im_pc = "done")
C25_Witness ==
    /\ Imported
    /\ source_path.path = "/in/letter.doc"
    /\ {"letter.doc", "letter_1.doc", "letter_2.doc"} \subseteq dir_before
    /\ imported = Str("letter_3.doc")

\* C24: remove_account(name) removes the account name and every item whose
\* account is name and leaves every other account and item as it was;
\* load_items then returns no item of that account.
C24_RemoveAccountFrame ==
    db_call.op = "remove_account" =>
        /\ ~db_call.raised
        /\ db_call.name \notin db.accounts
        /\ \A i \in db.items : i.account # db_call.name
        /\ \A n \in AccountNames \ {db_call.name} :
              n \in db.accounts <=> n \in db_call.before.accounts
        /\ \A i \in db_call.before.items :
              i.account # db_call.name => i \in db.items
        /\ db.items \subseteq db_call.before.items
        /\ \A k \in 1..Len(load_items(db)) :
              load_items(db)[k].account # db_call.name
C24_Witness ==
    /\ db_call.op = "remove_account"
    /\ db_call.name = "a"
    /\ "a" \in db_call.before.accounts
    /\ \E i \in db_call.before.items : i.account = "a"
    /\ \E i \in db.items : i.account = "b"
    /\ "b" \in db.accounts

\* every item of the store is recorded under an account of the store
ItemsBelongToAccounts(store) == \A i \in store.items : i.account \in store.accounts

\* C29: account names stay unique in the store: save_account with a name
\* that exists changes nothing, and update_account_name(old, new) to the
\* name new of an existing account creates no
\* duplicate and reassigns no item: the store, whose items belong to its
\* accounts, is left as it was.
C29_AccountNamesStayUnique ==
    /\ Len(load_accounts(db)) = Cardinality(db.accounts)
    /\ \A j, k \in 1..Len(load_accounts(db)) :
          load_accounts(db)[j] = load_accounts(db)[k] => j = k
    /\ (db_call.op = "save_account" /\ db_call.name \in db_call.before.accounts) =>
          db = db_call.before
    /\ (db_call.op = "update_account_name"
          /\ db_call.new_name \in db_call.before.accounts
          /\ ItemsBelongToAccounts(db_call.before)) =>
          db = db_call.before
C29_Witness ==
    /\ db_call.op = "update_account_name"
    /\ db_call.name = "a"
    /\ db_call.new_name = "b"
    /\ {"a", "b"} \subseteq db_call.before.accounts
    /\ \E i \in db_call.before.items : i.account = "a"
    /\ db_call.raised

\* C26: a Rename or a Delete of the account list acts on the account whose
\* name is displayed at the selected row, and on no other account.
C26_ActsOnDisplayedAccount ==
    ui_op.op \in {"rename_account", "delete_account"} =>
        (ui_op.acted # "" => ui_op.acted = ui_op.shown)

\* C27: every item, in memory and in the database, belongs to an account
\* that exists at present.
C27_ItemsBelongToExistingAccounts ==
    /\ \A k \in 1..Len(items) : items[k].account \in Range(accounts)
    /\ \A i \in db.items : i.account \in db.accounts

C30_StoredKeyIsNotLost ==
    key_set.has =>
        /\ DictGet(config_file.config, "openai_api_key", "") = key_set.text
        /\ (settings_call.op = "extract_text" /\ settings_call.inst \in key_set.then_saved) =>
              authorization = _headers([openai_api_key |-> key_set.text])

====
